---- MODULE Spec2Model ----
(***************************************************************************)
(* Model of the PayPal polling and ingestion engine (poller-paypal.js):    *)
(* credential loading, token acquisition, cursor window, paginated fetch   *)
(* with 429/network backoff, classification and idempotent insertion.      *)
(* Times are milliseconds, amounts and header seconds are thousandths.     *)
(***************************************************************************)
EXTENDS Integers, Sequences, FiniteSets, TLC

\* ---------------------------------------------------------------- tunables
MAX_WINDOW_HOURS == 6
OVERLAP_MINUTES == 120
PAGE_SIZE == 2
BETWEEN_ACCOUNT_SLEEP_MS == 1500
BETWEEN_PAGE_SLEEP_MS == 500
MAX_429_RETRIES == 6
BASE_BACKOFF_MS == 5000
MAX_BACKOFF_MS == 120000
NET_RETRY_LIMIT == 3

\* ------------------------------------------------------------------ bounds
MaxRuns == 2
JitterSteps == 3
MaxTimerSlack == 1
MaxBatch == 2
MaxHour == 12

Hour == 60 * 60 * 1000

\* ----------------------------------------------------------- JS primitives
UNDEF == "undefined"

Max(a, b) == IF a >= b THEN a ELSE b
Min(a, b) == IF a <= b THEN a ELSE b

RECURSIVE Pow2(_)
Pow2(n) == IF n <= 0 THEN 1 ELSE 2 * Pow2(n - 1)

\* JS truthiness of a string-or-undefined field
Truthy(x) == x # UNDEF /\ x # ""

\* Number(x) on the strings that occur; value in thousandths
NumberOf(x) ==
  CASE x = "10.50" -> [finite |-> TRUE, milli |-> 10500]
    [] x = "-5.00" -> [finite |-> TRUE, milli |-> 0 - 5000]
    [] x = "0.00" -> [finite |-> TRUE, milli |-> 0]
    [] x = "" -> [finite |-> TRUE, milli |-> 0]
    [] x = "0" -> [finite |-> TRUE, milli |-> 0]
    [] x = "-5" -> [finite |-> TRUE, milli |-> 0 - 5000]
    [] x = "30" -> [finite |-> TRUE, milli |-> 30000]
    [] x = "200" -> [finite |-> TRUE, milli |-> 200000]
    [] OTHER -> [finite |-> FALSE, milli |-> 0]

\* safeNum: finite number or null (empty sequence)
safeNum(x) == IF NumberOf(x).finite THEN <<NumberOf(x).milli>> ELSE <<>>

\* Math.random() takes the values r / JitterSteps, r in 0..JitterSteps-1
jitter(ms, r) == (ms * (8 * JitterSteps + 4 * r)) \div (10 * JitterSteps)

toISO(ms) == ms

\* timestamps as the provider writes them, and their value as a timestamptz
IsoHour(h) ==
  CASE h = 1 -> "01:00Z" [] h = 2 -> "02:00Z" [] h = 3 -> "03:00Z"
    [] h = 4 -> "04:00Z" [] h = 5 -> "05:00Z" [] h = 6 -> "06:00Z"
    [] h = 7 -> "07:00Z" [] h = 8 -> "08:00Z" [] h = 9 -> "09:00Z"
    [] OTHER -> "bad-date"
ValidDate(s) == \E h \in 1..9 : IsoHour(h) = s
ParseTimestamp(s) == (CHOOSE h \in 1..9 : IsoHour(h) = s) * Hour

\* ------------------------------------------------------------ cursor window
\* SELECT MAX(occurred_at) ... WHERE provider = 'paypal' AND account_id = $1
MaxOccurredAt(rows, accountId) ==
  LET own == {r \in rows : r.provider = "paypal" /\ r.account_id = accountId}
  IN IF own = {} THEN <<>>
     ELSE <<(CHOOSE m \in {r.occurred_at : r \in own} :
               \A r \in own : r.occurred_at <= m)>>

\* variants of windowFor: without the lookback cap, without the overlap
windowFor_noCap(last, nowMs) ==
  LET overlapMs == OVERLAP_MINUTES * 60 * 1000
      capStartMs == nowMs - MAX_WINDOW_HOURS * 60 * 60 * 1000
  IN [startISO |-> (IF last = <<>> THEN capStartMs ELSE last[1]) - overlapMs,
      endISO |-> nowMs]

windowFor_noOverlap(last, nowMs) ==
  LET capStartMs == nowMs - MAX_WINDOW_HOURS * 60 * 60 * 1000
  IN [startISO |-> Max(capStartMs, IF last = <<>> THEN capStartMs ELSE last[1]),
      endISO |-> nowMs]

windowFor(last, nowMs) ==
  LET overlapMs == OVERLAP_MINUTES * 60 * 1000
      capStartMs == nowMs - MAX_WINDOW_HOURS * 60 * 60 * 1000
      startMs == Max(capStartMs,
                     (IF last = <<>> THEN capStartMs ELSE last[1]) - overlapMs)
  IN [startISO |-> toISO(startMs), endISO |-> toISO(nowMs)]

cursorWindowForAccount(rows, accountId, nowMs) ==
  windowFor(MaxOccurredAt(rows, accountId), nowMs)


\* ------------------------------------------------------------ environment
Accounts == {1, 2}
\* accounts.label, as its rank in ascending order
LabelRank(a) == IF a = 1 THEN 2 ELSE 1

PAYPAL_EVENTS == {"T0006"}

Rec(code, id, init, upd, evt, amount) ==
  [info |-> TRUE, code |-> code, id |-> id, init |-> init, upd |-> upd,
   evt |-> evt, amount |-> amount]

\* what the provider holds: owner, the time it files the record under, and
\* the record as it is reported in transaction_details
Ledger ==
  << [account |-> 1, at |-> 7 * Hour,
      t |-> Rec("T0006", "A", IsoHour(7), UNDEF, UNDEF, "10.50")],
     [account |-> 1, at |-> 3 * Hour,
      t |-> Rec("T0006", "B", IsoHour(3), UNDEF, IsoHour(4), "-5.00")],
     [account |-> 1, at |-> 7 * Hour,
      t |-> Rec("T0006", UNDEF, IsoHour(7), UNDEF, UNDEF, "10.50")],
     [account |-> 2, at |-> 6 * Hour,
      t |-> Rec("T0006", "A", UNDEF, IsoHour(6), UNDEF, UNDEF)],
     [account |-> 2, at |-> 9 * Hour,
      t |-> Rec("T0400", "C", IsoHour(9), UNDEF, UNDEF, "10.50")] >>

RECURSIVE SelectRecords(_, _, _, _)
SelectRecords(i, acct, startMs, endMs) ==
  IF i > Len(Ledger) THEN <<>>
  ELSE (IF Ledger[i].account = acct /\ startMs <= Ledger[i].at
           /\ Ledger[i].at <= endMs
        THEN <<Ledger[i].t>> ELSE <<>>)
       \o SelectRecords(i + 1, acct, startMs, endMs)

\* GET /v1/reporting/transactions?start_date&end_date&page_size&page
ReportingPage(acct, w, pageSize, p) ==
  LET hits == SelectRecords(1, acct, w.startISO, w.endISO)
      n == Len(hits)
  IN [transaction_details |->
        SubSeq(hits, (p - 1) * pageSize + 1, Min(p * pageSize, n)),
      total_pages |-> (n + pageSize - 1) \div pageSize]

RetryAfterHeaders == {UNDEF, "30", "200", "0", "-5", "Wed, 21 Oct 2026 07:28:00 GMT"}

\* substrings of an error message that the catch block looks for
OAuthFailures ==
  {[cause |-> "credentials", text |-> {"invalid_client"}],
   [cause |-> "oauth", text |-> {"429"}],
   [cause |-> "oauth", text |-> {}]}
ApiFailures ==
  {[status |-> 403, text |-> {"NOT_AUTHORIZED"}],
   [status |-> 500, text |-> {}],
   [status |-> 500, text |-> {"429"}]}
ClockSteps == {1, 4}

Configs ==
  {[databaseUrl |-> FALSE, credTable |-> TRUE, accounts |-> {}],
   [databaseUrl |-> TRUE, credTable |-> FALSE, accounts |-> {}]}
  \cup {[databaseUrl |-> TRUE, credTable |-> TRUE, accounts |-> s] :
          s \in SUBSET Accounts}

\* ------------------------------------------------------------------- state
VARIABLES config, store, now, runs, pc, exitCode, merchants, ai, token, win,
          page, attempt, all, reqLog, pagesOk, retried, resp, wait, slept,
          txs, ti,
          captureCount, captureTotal, nonCaptureCount, inserted, status,
          cause, store0, prev, missed

vars == <<config, store, now, runs, pc, exitCode, merchants, ai, token, win,
          page, attempt, all, reqLog, pagesOk, retried, resp, wait, slept,
          txs, ti,
          captureCount, captureTotal, nonCaptureCount, inserted, status,
          cause, store0, prev, missed>>

fetchVars == <<page, attempt, all, reqLog, pagesOk, retried, resp, wait,
               slept>>
countVars == <<captureCount, captureTotal, nonCaptureCount, inserted>>
ghostVars == <<store0, prev, missed>>

NoWindow == [startISO |-> 0, endISO |-> 0]
NoResp == [status |-> 0, retryAfter |-> UNDEF]

m == merchants[ai]

\* ORDER BY a.label ASC
RECURSIVE SortByLabel(_)
SortByLabel(s) ==
  IF s = {} THEN <<>>
  ELSE LET a == CHOOSE x \in s : \A y \in s : LabelRank(x) <= LabelRank(y)
       IN <<a>> \o SortByLabel(s \ {a})

loadPaypalAccounts(c) == SortByLabel(c.accounts)

ProcessLocals ==
  /\ merchants = <<>> /\ ai = 0 /\ token = 0 /\ win = NoWindow
  /\ page = 0 /\ attempt = 0 /\ all = <<>> /\ reqLog = <<>>
  /\ pagesOk = <<>> /\ retried = FALSE
  /\ resp = NoResp /\ wait = 0 /\ slept = 0 /\ txs = <<>> /\ ti = 0
  /\ captureCount = 0 /\ captureTotal = 0 /\ nonCaptureCount = 0
  /\ inserted = 0
  /\ status = [a \in Accounts |-> "pending"]
  /\ cause = "none"

Init ==
  /\ config \in Configs
  /\ store = {}
  /\ now = 8 * Hour
  /\ runs = 1
  /\ pc = "start"
  /\ exitCode = 0 - 1
  /\ ProcessLocals
  /\ store0 = {}
  /\ prev = [a \in Accounts |-> {}]
  /\ missed = [a \in Accounts |-> {}]


\* ------------------------------------------------------- record processing
Recognized(t) == t.info /\ t.code \in PAYPAL_EVENTS

\* info.transaction_initiation_date || ..._updated_date || ..._event_date
\* variant: fallback order reversed
OccurredAtOf_reversed(t) ==
  IF Truthy(t.evt) THEN t.evt
  ELSE IF Truthy(t.upd) THEN t.upd
  ELSE t.init

OccurredAtOf(t) ==
  IF Truthy(t.init) THEN t.init
  ELSE IF Truthy(t.upd) THEN t.upd
  ELSE t.evt

Insertable(t) ==
  /\ Recognized(t)
  /\ Truthy(t.id)
  /\ Truthy(OccurredAtOf(t))

AmountOf(t) == IF t.amount # UNDEF THEN safeNum(t.amount) ELSE <<>>

\* variant: amount >= 0 instead of amount > 0
IsCapture_nonNegative(t) ==
  /\ t.code = "T0006"
  /\ AmountOf(t) # <<>>
  /\ AmountOf(t)[1] >= 0

IsCapture(t) ==
  /\ t.code = "T0006"
  /\ AmountOf(t) # <<>>
  /\ AmountOf(t)[1] > 0

HasKey(rows, id) ==
  \E r \in rows : r.provider = "paypal" /\ r.provider_event_id = id

\* variant: RETURNING 1 also for a row that was already there
insertTransaction_always1(rows, acct, id, eventType, payload, occurredAt) ==
  IF HasKey(rows, id)
  THEN [rows |-> rows, rowCount |-> 1]
  ELSE [rows |-> rows \cup
                   {[account_id |-> acct, provider |-> "paypal",
                     provider_event_id |-> id, event_type |-> eventType,
                     payload_json |-> payload,
                     occurred_at |-> ParseTimestamp(occurredAt),
                     verified |-> TRUE]},
        rowCount |-> 1]

\* variant: ON CONFLICT ... DO UPDATE
insertTransaction_upsert(rows, acct, id, eventType, payload, occurredAt) ==
  [rows |-> {r \in rows :
               ~(r.provider = "paypal" /\ r.provider_event_id = id)}
            \cup {[account_id |-> acct, provider |-> "paypal",
                    provider_event_id |-> id, event_type |-> eventType,
                    payload_json |-> payload,
                    occurred_at |-> ParseTimestamp(occurredAt),
                    verified |-> TRUE]},
   rowCount |-> 1]

\* INSERT ... ON CONFLICT (provider, provider_event_id) DO NOTHING RETURNING 1
insertTransaction(rows, acct, id, eventType, payload, occurredAt) ==
  IF HasKey(rows, id)
  THEN [rows |-> rows, rowCount |-> 0]
  ELSE [rows |-> rows \cup
                   {[account_id |-> acct, provider |-> "paypal",
                     provider_event_id |-> id, event_type |-> eventType,
                     payload_json |-> payload,
                     occurred_at |-> ParseTimestamp(occurredAt),
                     verified |-> TRUE]},
        rowCount |-> 1]

\* the branch of the catch block a message falls in
ClassifyError(msg) ==
  IF "invalid_client" \in msg THEN "badCreds"
  ELSE IF "NOT_AUTHORIZED" \in msg \/ "insufficient permissions" \in msg
    THEN "noScope"
  ELSE IF "RATE_LIMIT_REACHED" \in msg \/ "429" \in msg THEN "rateLimited"
  ELSE "failed"

parseRetryAfterMs(ra) ==
  IF ~Truthy(ra) THEN <<>>
  ELSE IF NumberOf(ra).finite /\ NumberOf(ra).milli > 0
    THEN <<NumberOf(ra).milli>>
  ELSE <<>>

\* variant: exponent one too high
backoffWait_nextExponent(att, r) ==
  Min(MAX_BACKOFF_MS, jitter(BASE_BACKOFF_MS * Pow2(att), r))

backoffWait(att, r) ==
  Min(MAX_BACKOFF_MS, jitter(BASE_BACKOFF_MS * Pow2(att - 1), r))

\* variant: Retry-After treated like a computed backoff, capped
waitFor429_capped(retryAfter, att, r) ==
  IF retryAfter # <<>> THEN Min(MAX_BACKOFF_MS, retryAfter[1])
  ELSE backoffWait(att, r)

\* retryAfter ?? Math.min(MAX_BACKOFF_MS, jitter(...))
waitFor429(retryAfter, att, r) ==
  IF retryAfter # <<>> THEN retryAfter[1] ELSE backoffWait(att, r)

\* Number(json?.total_pages || 1)
totalPagesOf(json) == IF json.total_pages = 0 THEN 1 ELSE json.total_pages

\* variant: stops one page early
isLastPage_early(p, totalPages) == p + 1 >= totalPages

\* variant: attempt declared outside the page loop
firstAttempt_carried(att) == att

\* let attempt = 0, at the top of every page
firstAttempt(att) == 0

\* variant: returns after the first page
isLastPage_first(p, totalPages) == TRUE

\* if (page >= totalPages) break
isLastPage(p, totalPages) == p >= totalPages

SleepDurations(ms) == ms..(ms + MaxTimerSlack)

\* records of a batch that would be inserted but are not in the table
Unpersisted(batch, rows) ==
  {batch[i] : i \in {j \in 1..Len(batch) :
      Insertable(batch[j]) /\ ~HasKey(rows, batch[j].id)}}

\* ----------------------------------------------------------------- actions
ResetLocals ==
  /\ merchants' = <<>> /\ ai' = 0 /\ token' = 0 /\ win' = NoWindow
  /\ page' = 0 /\ attempt' = 0 /\ all' = <<>> /\ reqLog' = <<>>
  /\ pagesOk' = <<>> /\ retried' = FALSE
  /\ resp' = NoResp /\ wait' = 0 /\ slept' = 0 /\ txs' = <<>> /\ ti' = 0
  /\ captureCount' = 0 /\ captureTotal' = 0 /\ nonCaptureCount' = 0
  /\ inserted' = 0
  /\ status' = [a \in Accounts |-> "pending"]
  /\ cause' = "none"

\* the catch block of run(): report the cause, go on to the sleep
\* variant: the error leaves the loop and ends the run
Catch_rethrow(msg, why) ==
  /\ status' = [status EXCEPT ![m] = ClassifyError(msg)]
  /\ cause' = why
  /\ pc' = "exited"

Catch(msg, why) ==
  /\ status' = [status EXCEPT ![m] = ClassifyError(msg)]
  /\ cause' = why
  /\ pc' = "acctSleep"

\* variant: only the connection string is checked
startupFails_dbOnly(c) == ~c.databaseUrl

\* DATABASE_URL missing at load, or findCredTable finds no relation
startupFails(c) == ~c.databaseUrl \/ ~c.credTable

\* module load and run() up to the account loop
Start ==
  /\ pc = "start"
  /\ IF startupFails(config)
     THEN /\ pc' = "exited" /\ exitCode' = 1
          /\ UNCHANGED <<merchants, ai>>
     ELSE /\ merchants' = loadPaypalAccounts(config)
          /\ IF merchants' = <<>>
             THEN pc' = "exited" /\ exitCode' = 0 /\ ai' = 0
             ELSE pc' = "token" /\ exitCode' = exitCode /\ ai' = 1
  /\ UNCHANGED <<config, store, now, runs, token, win, fetchVars, txs, ti,
                 countVars, status, cause, ghostVars>>

GetAccessTokenOk ==
  /\ pc = "token"
  /\ token' = m
  /\ pc' = "window"
  /\ UNCHANGED <<config, store, now, runs, exitCode, merchants, ai, win,
                 fetchVars, txs, ti, countVars, status, cause, ghostVars>>

GetAccessTokenFail ==
  /\ pc = "token"
  /\ \E f \in OAuthFailures : Catch(f.text, f.cause)
  /\ UNCHANGED <<config, store, now, runs, exitCode, merchants, ai, token,
                 win, fetchVars, txs, ti, countVars, ghostVars>>

CursorWindow ==
  /\ pc = "window"
  /\ win' = cursorWindowForAccount(store, m, now)
  /\ page' = 1 /\ all' = <<>> /\ attempt' = 0
  /\ pc' = "request"
  /\ UNCHANGED <<config, store, now, runs, exitCode, merchants, ai, token,
                 reqLog, pagesOk, retried, resp, wait, slept, txs, ti,
                 countVars, status, cause, ghostVars>>

\* the MAX(occurred_at) query is rejected by the database
CursorWindowError ==
  /\ pc = "window"
  /\ Catch({}, "storage")
  /\ UNCHANGED <<config, store, now, runs, exitCode, merchants, ai, token,
                 win, fetchVars, txs, ti, countVars, ghostVars>>

FetchReportingPage ==
  /\ pc = "request"
  /\ attempt' = attempt + 1
  \* the last response and its wait are dead from here on
  /\ resp' = NoResp /\ wait' = 0 /\ slept' = 0
  /\ pc' = "response"
  /\ UNCHANGED <<config, store, now, runs, exitCode, merchants, ai, token,
                 win, page, all, reqLog, pagesOk, retried, txs, ti,
                 countVars, status, cause, ghostVars>>

RespNetworkError ==
  /\ pc = "response"
  /\ \E r \in 0..(JitterSteps - 1) : wait' = backoffWait(attempt, r)
  /\ resp' = NoResp
  /\ reqLog' = Append(reqLog, 0)
  /\ retried' = TRUE
  /\ IF attempt >= NET_RETRY_LIMIT
     THEN Catch({}, "network")
     ELSE pc' = "backoff" /\ status' = status /\ cause' = cause
  /\ UNCHANGED <<config, store, now, runs, exitCode, merchants, ai, token,
                 win, page, attempt, all, pagesOk, slept, txs, ti,
                 countVars, ghostVars>>

Resp429 ==
  /\ pc = "response"
  /\ \E ra \in RetryAfterHeaders, r \in 0..(JitterSteps - 1) :
       /\ wait' = waitFor429(parseRetryAfterMs(ra), attempt, r)
       /\ resp' = [status |-> 429, retryAfter |-> ra]
  /\ reqLog' = Append(reqLog, 429)
  /\ retried' = TRUE
  /\ IF attempt >= MAX_429_RETRIES
     THEN Catch({"RATE_LIMIT_REACHED", "429"}, "rateLimit")
     ELSE pc' = "backoff" /\ status' = status /\ cause' = cause
  /\ UNCHANGED <<config, store, now, runs, exitCode, merchants, ai, token,
                 win, page, attempt, all, pagesOk, slept, txs, ti,
                 countVars, ghostVars>>

\* variant: an API error is retried like a 429
RespNotOk_retried ==
  /\ pc = "response"
  /\ \E f \in ApiFailures :
       /\ resp' = [status |-> f.status, retryAfter |-> UNDEF]
       /\ reqLog' = Append(reqLog, f.status)
       /\ wait' = backoffWait(attempt, 0)
       /\ IF attempt >= MAX_429_RETRIES
          THEN Catch(f.text, "api")
          ELSE pc' = "backoff" /\ status' = status /\ cause' = cause
  /\ UNCHANGED <<config, store, now, runs, exitCode, merchants, ai, token,
                 win, page, attempt, all, pagesOk, retried, slept, txs,
                 ti, countVars, ghostVars>>

\* if (!resp.ok) throw: neither 2xx nor 429
RespNotOk ==
  /\ pc = "response"
  /\ \E f \in ApiFailures :
       /\ resp' = [status |-> f.status, retryAfter |-> UNDEF]
       /\ reqLog' = Append(reqLog, f.status)
       /\ Catch(f.text, "api")
  /\ UNCHANGED <<config, store, now, runs, exitCode, merchants, ai, token,
                 win, page, attempt, all, pagesOk, retried, wait, slept, txs,
                 ti, countVars, ghostVars>>

RespOk ==
  /\ pc = "response"
  /\ LET json == ReportingPage(token, win, PAGE_SIZE, page)
         details == json.transaction_details
         totalPages == totalPagesOf(json)
     IN /\ all' = all \o details
        /\ pagesOk' = Append(pagesOk, page)
        /\ IF isLastPage(page, totalPages)
           THEN /\ txs' = all' /\ ti' = 1
                /\ store0' = store
                /\ pc' = "persist"
                /\ resp' = NoResp
                /\ reqLog' = Append(reqLog, 200)
                /\ UNCHANGED <<page, attempt>>
           ELSE /\ page' = page + 1 /\ attempt' = firstAttempt(attempt)
                /\ reqLog' = <<>>
                /\ pc' = "pageSleep"
                /\ resp' = [status |-> 200, retryAfter |-> UNDEF]
                /\ UNCHANGED <<txs, ti, store0>>
  /\ UNCHANGED <<config, store, now, runs, exitCode, merchants, ai, token,
                 win, retried, wait, slept, countVars, status, cause, prev, missed>>

Backoff ==
  /\ pc = "backoff"
  /\ slept' \in SleepDurations(wait)
  /\ pc' = "request"
  /\ UNCHANGED <<config, store, now, runs, exitCode, merchants, ai, token,
                 win, page, attempt, all, reqLog, pagesOk, retried, resp,
                 wait, txs, ti, countVars, status, cause, ghostVars>>

PageSleep ==
  /\ pc = "pageSleep"
  /\ slept' \in SleepDurations(BETWEEN_PAGE_SLEEP_MS)
  /\ pc' = "request"
  /\ UNCHANGED <<config, store, now, runs, exitCode, merchants, ai, token,
                 win, page, attempt, all, reqLog, pagesOk, retried, resp,
                 wait, txs, ti, countVars, status, cause, ghostVars>>


\* one iteration of  for (const t of txs)
PersistRecord ==
  /\ pc = "persist"
  /\ ti <= Len(txs)
  /\ LET t == txs[ti]
         occurredAt == OccurredAtOf(t)
         res == insertTransaction(store, m, t.id, t.code, t, occurredAt)
     IN IF ~Insertable(t)
        THEN /\ ti' = ti + 1
             /\ UNCHANGED <<store, countVars, status, cause, pc, missed>>
        ELSE /\ IF IsCapture(t)
                THEN /\ captureCount' = captureCount + 1
                     /\ captureTotal' = captureTotal + AmountOf(t)[1]
                     /\ UNCHANGED nonCaptureCount
                ELSE /\ nonCaptureCount' = nonCaptureCount + 1
                     /\ UNCHANGED <<captureCount, captureTotal>>
             /\ IF ValidDate(occurredAt)
                THEN /\ store' = res.rows
                     /\ inserted' = inserted + res.rowCount
                     /\ ti' = ti + 1
                     /\ UNCHANGED <<status, cause, pc, missed>>
                ELSE /\ Catch({}, "storage")
                     /\ missed' = [missed EXCEPT
                                     ![m] = Unpersisted(txs, store)]
                     /\ UNCHANGED <<store, inserted, ti>>
  /\ UNCHANGED <<config, now, runs, exitCode, merchants, ai, token, win,
                 fetchVars, txs, store0, prev>>

\* the insert is rejected by the database (connection lost, constraint)
PersistRecordError ==
  /\ pc = "persist"
  /\ ti <= Len(txs)
  /\ Insertable(txs[ti])
  /\ IF IsCapture(txs[ti])
     THEN /\ captureCount' = captureCount + 1
          /\ captureTotal' = captureTotal + AmountOf(txs[ti])[1]
          /\ UNCHANGED nonCaptureCount
     ELSE /\ nonCaptureCount' = nonCaptureCount + 1
          /\ UNCHANGED <<captureCount, captureTotal>>
  /\ Catch({}, "storage")
  /\ missed' = [missed EXCEPT ![m] = Unpersisted(txs, store)]
  /\ UNCHANGED <<config, store, now, runs, exitCode, merchants, ai, token,
                 win, fetchVars, txs, ti, inserted, store0, prev>>

\* after the loop: skipped, the summary line
Summary ==
  /\ pc = "persist"
  /\ ti > Len(txs)
  /\ status' = [status EXCEPT ![m] =
                  IF captureCount > 0 \/ nonCaptureCount > 0
                  THEN "ok" ELSE "empty"]
  /\ cause' = "none"
  /\ pc' = "acctSleep"
  /\ prev' = [prev EXCEPT ![m] = prev[m] \cup {txs[i] : i \in 1..Len(txs)}]
  /\ missed' = [missed EXCEPT ![m] = {}]
  /\ UNCHANGED <<config, store, now, runs, exitCode, merchants, ai, token,
                 win, fetchVars, txs, ti, countVars, store0>>

\* variant: no throttle after a failed account
accountSleepMs_afterSuccess(st) ==
  IF st \in {"ok", "empty"} THEN BETWEEN_ACCOUNT_SLEEP_MS ELSE 0

\* the delay after an account, whatever its outcome
accountSleepMs(st) == BETWEEN_ACCOUNT_SLEEP_MS

\* sleep(BETWEEN_ACCOUNT_SLEEP_MS), then the next merchant or process.exit(0)
AccountSleep ==
  /\ pc = "acctSleep"
  /\ IF ai < Len(merchants)
     THEN /\ ai' = ai + 1
          /\ pc' = "token"
          /\ UNCHANGED exitCode
     ELSE /\ pc' = "exited"
          /\ exitCode' = 0
          /\ UNCHANGED ai
  /\ token' = 0 /\ win' = NoWindow
  /\ page' = 0 /\ attempt' = 0 /\ all' = <<>> /\ reqLog' = <<>>
  /\ pagesOk' = <<>> /\ retried' = FALSE
  /\ resp' = NoResp /\ wait' = 0 /\ txs' = <<>> /\ ti' = 0
  /\ slept' \in SleepDurations(accountSleepMs(status[m]))
  /\ captureCount' = 0 /\ captureTotal' = 0 /\ nonCaptureCount' = 0
  /\ inserted' = 0
  /\ cause' = "none"
  /\ UNCHANGED <<config, store, now, runs, merchants, status, ghostVars>>

\* the process is killed while it works on an account
Crash ==
  /\ pc \in {"token", "window", "request", "response", "backoff",
             "pageSleep", "persist", "acctSleep"}
  /\ pc' = "exited"
  /\ exitCode' = 137
  /\ missed' = IF pc = "persist" /\ ti <= Len(txs)
               THEN [missed EXCEPT ![m] = Unpersisted(txs, store)]
               ELSE missed
  /\ ResetLocals
  /\ UNCHANGED <<config, store, now, runs, store0, prev>>

\* the scheduler starts the poller again, later
NextRun ==
  /\ pc = "exited"
  /\ runs < MaxRuns
  /\ runs' = runs + 1
  /\ \E d \in ClockSteps : now' = now + d * Hour
  /\ pc' = "start"
  /\ exitCode' = 0 - 1
  /\ ResetLocals
  /\ UNCHANGED <<config, store, ghostVars>>

Next ==
  \/ Start
  \/ GetAccessTokenOk
  \/ GetAccessTokenFail
  \/ CursorWindow
  \/ CursorWindowError
  \/ FetchReportingPage
  \/ RespNetworkError
  \/ Resp429
  \/ RespNotOk
  \/ RespOk
  \/ Backoff
  \/ PageSleep
  \/ PersistRecord
  \/ PersistRecordError
  \/ Summary
  \/ AccountSleep
  \/ Crash
  \/ NextRun

Spec == Init /\ [][Next]_vars

TypeOK ==
  /\ pc \in {"start", "token", "window", "request", "response", "backoff",
             "pageSleep", "persist", "acctSleep", "exited"}
  /\ attempt \in 0..MAX_429_RETRIES


\* ------------------------------------------------ the window function alone
\* a table holding at most one paypal row of account 1, and rows that the
\* cursor query must not count
RowAt(acct, provider, id, ms) ==
  [account_id |-> acct, provider |-> provider, provider_event_id |-> id,
   event_type |-> "T0006",
   payload_json |-> Rec("T0006", id, UNDEF, UNDEF, UNDEF, UNDEF),
   occurred_at |-> ms, verified |-> TRUE]

WindowTables ==
  LET own == {{}} \cup {{RowAt(1, "paypal", "A", h * Hour)} : h \in 0..MaxHour}
      others == {{}, {RowAt(2, "paypal", "B", MaxHour * Hour),
                      RowAt(1, "stripe", "A", MaxHour * Hour)}}
  IN {o \cup d : o \in own, d \in others}

InitWindow ==
  /\ config = [databaseUrl |-> TRUE, credTable |-> TRUE, accounts |-> {1}]
  /\ store \in WindowTables
  /\ now \in {h * Hour : h \in 6..MaxHour}
  /\ runs = 1
  /\ pc = "window"
  /\ exitCode = 0 - 1
  /\ merchants = <<1>> /\ ai = 1 /\ token = 1 /\ win = NoWindow
  /\ page = 0 /\ attempt = 0 /\ all = <<>> /\ reqLog = <<>>
  /\ pagesOk = <<>> /\ retried = FALSE
  /\ resp = NoResp /\ wait = 0 /\ slept = 0 /\ txs = <<>> /\ ti = 0
  /\ captureCount = 0 /\ captureTotal = 0 /\ nonCaptureCount = 0
  /\ inserted = 0
  /\ status = [a \in Accounts |-> "pending"]
  /\ cause = "none"
  /\ store0 = {}
  /\ prev = [a \in Accounts |-> {}]
  /\ missed = [a \in Accounts |-> {}]

NextWindow == CursorWindow

SpecWindow == InitWindow /\ [][NextWindow]_vars

\* ------------------------------------------------------------------ claims
WindowComputed == pc = "request" /\ page = 1 /\ attempt = 0
LastSeen == MaxOccurredAt(store, m)
CapStart == now - MAX_WINDOW_HOURS * 60 * 60 * 1000
OverlapMs == OVERLAP_MINUTES * 60 * 1000

\* C3: whatever lastSeen is (null included), the window ends at now, starts
\* no earlier than now - MAX_WINDOW_HOURS hours and is no longer than
\* MAX_WINDOW_HOURS*60 + OVERLAP_MINUTES minutes.
C3_WindowBound ==
  WindowComputed =>
    /\ win.endISO = now
    /\ win.startISO >= now - MAX_WINDOW_HOURS * Hour
    /\ win.endISO - win.startISO
         <= (MAX_WINDOW_HOURS * 60 + OVERLAP_MINUTES) * 60 * 1000

C3_Witness ==
  /\ WindowComputed
  /\ LastSeen = <<>>
  /\ win.startISO = CapStart

\* C4 as stated: for every non-null lastSeen the window starts at or before
\* lastSeen - OVERLAP_MINUTES.
C4_OverlapAlways ==
  (WindowComputed /\ LastSeen # <<>>) =>
    win.startISO <= LastSeen[1] - OverlapMs

\* C4 amended: the window starts at lastSeen - OVERLAP_MINUTES whenever that
\* is inside the lookback cap, and then holds every time from there to now;
\* when it is older than the cap the window starts at the cap.
C4_OverlapWithinCap ==
  (WindowComputed /\ LastSeen # <<>>) =>
    /\ (LastSeen[1] - OverlapMs >= CapStart
          => win.startISO = LastSeen[1] - OverlapMs)
    /\ (LastSeen[1] - OverlapMs < CapStart => win.startISO = CapStart)

C4_Witness ==
  /\ WindowComputed
  /\ LastSeen # <<>>
  /\ LastSeen[1] - OverlapMs > CapStart
  /\ LastSeen[1] < now
  /\ win.startISO = LastSeen[1] - OverlapMs


\* what the provider holds for the window of the account being fetched
Hits == SelectRecords(1, token, win.startISO, win.endISO)
ReportedPages == ReportingPage(token, win, PAGE_SIZE, 1).total_pages

RECURSIVE ConcatPages(_)
ConcatPages(k) ==
  IF k = 0 THEN <<>>
  ELSE ConcatPages(k - 1)
       \o ReportingPage(token, win, PAGE_SIZE, k).transaction_details

\* C5: when every page request is answered successfully and the provider
\* reports total_pages = N, the fetcher requests the pages 1..N once each, in
\* that order, and returns the pages' transaction_details concatenated in page
\* order (N counted as 1 when the provider reports no page at all).
C5_PaginationComplete ==
  (pc = "persist" /\ ~retried) =>
    LET N == Max(1, ReportedPages)
    IN /\ pagesOk = [i \in 1..N |-> i]
       /\ reqLog = <<200>>
       /\ txs = ConcatPages(N)
       /\ txs = Hits

C5_Witness ==
  /\ pc = "persist"
  /\ ~retried
  /\ ReportedPages = 2
  /\ pagesOk = <<1, 2>>
  /\ Len(txs) = 3

RateLimitExhausted ==
  /\ pc = "acctSleep"
  /\ reqLog # <<>>
  /\ reqLog[Len(reqLog)] = 429

Count429 == Cardinality({i \in 1..Len(reqLog) : reqLog[i] = 429})

\* C6: a page fetch fails as rate-limit-exhausted only after the 429 responses
\* of that page have used up MAX_429_RETRIES; network failures on the page do
\* not count towards it.
C6_RateLimitBudget ==
  RateLimitExhausted => Count429 >= MAX_429_RETRIES

\* seconds announced by a Retry-After header, 0 when it announces none
HeaderSeconds(ra) ==
  CASE ra = "30" -> 30
    [] ra = "200" -> 200
    [] OTHER -> 0

\* C7: after a 429 whose Retry-After gives s > 0 seconds the wait is exactly
\* s seconds, neither jittered nor capped at MAX_BACKOFF_MS, and the next
\* request for the page is issued no earlier than s seconds later.
C7_RetryAfterHonored ==
  (resp.status = 429 /\ HeaderSeconds(resp.retryAfter) > 0) =>
    /\ wait = HeaderSeconds(resp.retryAfter) * 1000
    /\ (pc = "request" => slept >= HeaderSeconds(resp.retryAfter) * 1000)

C7_Witness ==
  /\ pc = "request"
  /\ resp.status = 429
  /\ resp.retryAfter = "200"
  /\ wait = 200000
  /\ wait > MAX_BACKOFF_MS
  /\ slept >= 200000

\* C8: after a 429 without a usable Retry-After the wait is min(MAX_BACKOFF_MS,
\* v) for a v within 20% of BASE_BACKOFF_MS * 2^k, k the number of earlier
\* attempts of the page request; it never exceeds MAX_BACKOFF_MS.
C8_BackoffRange ==
  (resp.status = 429 /\ HeaderSeconds(resp.retryAfter) = 0) =>
    LET nominal == BASE_BACKOFF_MS * Pow2(attempt - 1)
    IN /\ wait <= MAX_BACKOFF_MS
       /\ \/ /\ wait < MAX_BACKOFF_MS
             /\ 10 * wait >= 8 * nominal
             /\ 10 * wait <= 12 * nominal
          \/ /\ wait = MAX_BACKOFF_MS
             /\ 12 * nominal >= 10 * MAX_BACKOFF_MS

C8_Witness ==
  /\ pc = "request"
  /\ resp.status = 429
  /\ resp.retryAfter = UNDEF
  /\ attempt = 3
  /\ wait > BASE_BACKOFF_MS * 4
  /\ slept >= wait


\* ------------------------------------------- classification of a batch alone
Shapes ==
  {Rec("T0006", "A", IsoHour(7), UNDEF, UNDEF, a) :
     a \in {UNDEF, "10.50", "-5.00", "0.00", "", "abc"}}
  \cup {Rec("T0006", "B", i, u, e, "10.50") :
          i \in {UNDEF, "", IsoHour(1)}, u \in {UNDEF, IsoHour(2)},
          e \in {UNDEF, IsoHour(3)}}
  \cup {Rec("T0006", id, IsoHour(7), UNDEF, UNDEF, "10.50") :
          id \in {UNDEF, ""}}
  \cup {Rec(c, "A", IsoHour(7), UNDEF, UNDEF, "10.50") :
          c \in {"T0400", UNDEF}}
  \cup {Rec("T0006", "B", "bad-date", UNDEF, UNDEF, "10.50")}
  \cup {[Rec(UNDEF, UNDEF, UNDEF, UNDEF, UNDEF, UNDEF) EXCEPT !.info = FALSE]}

Batches == UNION {[1..n -> Shapes] : n \in 1..MaxBatch}

InitClassify ==
  /\ config = [databaseUrl |-> TRUE, credTable |-> TRUE, accounts |-> {1}]
  /\ store \in {{}, {RowAt(2, "paypal", "A", 5 * Hour)}}
  /\ now = 8 * Hour
  /\ runs = 1
  /\ pc = "persist"
  /\ exitCode = 0 - 1
  /\ merchants = <<1>> /\ ai = 1 /\ token = 1
  /\ win = windowFor(<<>>, now)
  /\ txs \in Batches
  /\ page = 1 /\ attempt = 1 /\ all = txs /\ reqLog = <<200>>
  /\ pagesOk = <<1>> /\ retried = FALSE
  /\ resp = NoResp /\ wait = 0 /\ slept = 0
  /\ ti = 1
  /\ captureCount = 0 /\ captureTotal = 0 /\ nonCaptureCount = 0
  /\ inserted = 0
  /\ status = [a \in Accounts |-> "pending"]
  /\ cause = "none"
  /\ store0 = store
  /\ prev = [a \in Accounts |-> {}]
  /\ missed = [a \in Accounts |-> {}]

NextClassify ==
  \/ PersistRecord
  \/ Summary

SpecClassify == InitClassify /\ [][NextClassify]_vars

\* -------------------------------------------------------- claims, continued
BatchSet == {txs[i] : i \in 1..Len(txs)}

\* C1: a record that an earlier completed run of the account already went
\* through inserts 0 rows in a later run, and a run whose records were all
\* ingested before leaves the table as it found it.
C1_Idempotent ==
  pc = "persist" =>
    /\ inserted <= Cardinality({i \in 1..(ti - 1) :
                                  Insertable(txs[i]) /\ txs[i] \notin prev[m]})
    /\ \A r \in store \ store0 : r.payload_json \notin prev[m]
    /\ store0 \subseteq store
    /\ (BatchSet \subseteq prev[m] => inserted = 0 /\ store = store0)

C1_Witness ==
  /\ pc = "persist"
  /\ runs = 2
  /\ ti > Len(txs)
  /\ BatchSet \subseteq prev[m]
  /\ \E t \in BatchSet : Insertable(t)
  /\ inserted = 0
  /\ store = store0

TimeOfRecord(t) == ParseTimestamp(OccurredAtOf(t))

\* C2: after an interrupted run the next window of the account holds every
\* record inside the lookback cap that the interrupted run fetched and did
\* not persist.
C2_RestartSafe ==
  WindowComputed =>
    \A t \in missed[m] :
      (~HasKey(store, t.id) /\ TimeOfRecord(t) >= CapStart)
        => (win.startISO <= TimeOfRecord(t) /\ TimeOfRecord(t) <= win.endISO)

\* a record as the spec describes a usable one, and its expected fields
FieldPresent(x) == x \notin {UNDEF, ""}
WellFormed(t) ==
  /\ t.info
  /\ t.code = "T0006"
  /\ FieldPresent(t.id)
  /\ (FieldPresent(t.init) \/ FieldPresent(t.upd) \/ FieldPresent(t.evt))
ExpectedOccurredAt(t) ==
  IF FieldPresent(t.init) THEN t.init
  ELSE IF FieldPresent(t.upd) THEN t.upd ELSE t.evt
\* the only strictly positive amount among the amounts that occur
ExpectedCapture(t) == t.code = "T0006" /\ t.amount = "10.50"

Processed == {i \in 1..Len(txs) : i < ti}

\* C9: of the usable records processed so far, exactly those with code T0006
\* and a finite amount > 0 were counted as captures, each adding its amount
\* to the total; all the others were counted as non-capture, and all of them
\* are in the table.
C9_Classification ==
  pc = "persist" =>
    /\ captureCount = Cardinality({i \in Processed :
                         WellFormed(txs[i]) /\ ExpectedCapture(txs[i])})
    /\ captureTotal = 10500 * captureCount
    /\ nonCaptureCount = Cardinality({i \in Processed :
                            WellFormed(txs[i]) /\ ~ExpectedCapture(txs[i])})
    /\ \A i \in Processed : WellFormed(txs[i]) => HasKey(store, txs[i].id)

C9_Witness ==
  /\ pc = "persist"
  /\ ti = 3
  /\ txs[1].amount = "10.50" /\ txs[2].amount = "0.00"
  /\ captureCount = 1 /\ captureTotal = 10500 /\ nonCaptureCount = 1
  /\ inserted = 1

\* C10: exactly the records with a recognized code, an id and a timestamp
\* reach the insert, with the first present of initiation, updated and event
\* date as occurred_at; any other record is skipped, uncounted, and the
\* records after it are still processed.
C10_PersistenceFilter ==
  /\ pc = "persist" =>
       /\ captureCount + nonCaptureCount
            = Cardinality({i \in Processed : WellFormed(txs[i])})
       /\ \A r \in store \ store0 :
            /\ \E i \in Processed : txs[i] = r.payload_json
            /\ WellFormed(r.payload_json)
            /\ r.provider_event_id = r.payload_json.id
            /\ r.occurred_at
                 = ParseTimestamp(ExpectedOccurredAt(r.payload_json))
       /\ \A i \in Processed : WellFormed(txs[i]) => HasKey(store, txs[i].id)
  /\ (pc = "acctSleep" /\ txs # <<>>) =>
       \/ status[m] \in {"ok", "empty"} /\ ti = Len(txs) + 1
       \/ ti <= Len(txs) /\ WellFormed(txs[ti])

C10_Witness ==
  /\ pc = "persist"
  /\ ti = 3
  /\ ~WellFormed(txs[1])
  /\ txs[1].code = "T0006"
  /\ txs[2].init = "" /\ txs[2].upd = UNDEF /\ txs[2].evt = IsoHour(3)
  /\ \E r \in store \ store0 : r.occurred_at = 3 * Hour
  /\ captureCount + nonCaptureCount = 1


\* ------------------------------------------------ the account loop as a whole
\* the accounts of a configuration, by ascending label
AscendingLabels(s) ==
  CASE s = {} -> <<>>
    [] s = {1} -> <<1>>
    [] s = {2} -> <<2>>
    [] s = {1, 2} -> <<2, 1>>

Outcomes == {"ok", "empty", "badCreds", "noScope", "rateLimited", "failed"}
Failures == {"badCreds", "noScope", "rateLimited", "failed"}
ConfigFailure == ~config.databaseUrl \/ ~config.credTable
Working == {"token", "window", "request", "response", "backoff", "pageSleep",
            "persist"}

\* C11: whatever fails in an account (token, window query, fetch, record
\* handling, insert), the accounts are taken one by one in ascending label
\* order: the ones before the current one have their outcome, the current
\* one gets exactly one, the ones after it are still to come, and the run
\* ends only when every account has its outcome.
C11_FailureIsolation ==
  (pc # "start" /\ ~ConfigFailure /\ exitCode # 137) =>
    /\ merchants = AscendingLabels(config.accounts)
    /\ \A i \in 1..Len(merchants) :
         /\ i < ai => status[merchants[i]] \in Outcomes
         /\ i > ai => status[merchants[i]] = "pending"
    /\ pc \in Working => status[m] = "pending"
    /\ pc = "acctSleep" => status[m] \in Outcomes
    /\ pc = "exited" => \A a \in config.accounts : status[a] \in Outcomes
    /\ \A a \in Accounts \ config.accounts : status[a] = "pending"

C11_Witness ==
  /\ pc = "exited" /\ exitCode = 0
  /\ merchants = <<2, 1>>
  /\ status[2] = "failed"
  /\ status[1] = "ok"

\* C12: the process exits 0 exactly when the account loop ran to its end
\* (also over no account at all, also after failed accounts), and exits 1
\* exactly on a configuration failure (no connection string, no credential
\* relation); with a configuration failure no token is requested, no page is
\* fetched and no row is inserted.
C12_ExitContract ==
  /\ (pc = "exited" /\ exitCode # 137) =>
       /\ exitCode \in {0, 1}
       /\ exitCode = 1 <=> ConfigFailure
       /\ exitCode = 0 =>
            /\ merchants = AscendingLabels(config.accounts)
            /\ ai = Len(merchants)
            /\ \A a \in config.accounts : status[a] \in Outcomes
  /\ ConfigFailure =>
       /\ pc \in {"start", "exited"}
       /\ merchants = <<>> /\ token = 0 /\ reqLog = <<>> /\ pagesOk = <<>>
       /\ store = {}
       /\ \A a \in Accounts : status[a] = "pending"

C12_Witness ==
  /\ pc = "exited" /\ exitCode = 0
  /\ \E a \in config.accounts : status[a] = "rateLimited"


\* C13: the outcome reported for a failed account names its cause: rejected
\* credentials are reported as a credential failure, a fetch that used up
\* its 429 retries as rate limited, and a failure of another kind (an API
\* error other than 429, a network error, a storage error) is reported
\* neither as rate limited nor as a credential failure.
C13_CauseReported ==
  (pc = "acctSleep" /\ status[m] \in Failures) =>
    /\ cause = "credentials" => status[m] = "badCreds"
    /\ cause = "rateLimit" => status[m] = "rateLimited"
    /\ cause \in {"api", "network", "storage"} =>
         status[m] \notin {"rateLimited", "badCreds"}


NetworkFailures == Cardinality({i \in 1..Len(reqLog) : reqLog[i] = 0})

\* C14: the fetch of a page fails with a network error only when
\* NET_RETRY_LIMIT attempts on that page failed at the network level; the
\* 429 responses received earlier on the page do not count against it.
C14_NetworkBudget ==
  (pc = "acctSleep" /\ cause = "network") =>
    NetworkFailures >= NET_RETRY_LIMIT


\* requests issued so far for the current page, answered or in flight
RequestsIssued == Len(reqLog) + (IF pc = "response" THEN 1 ELSE 0)

\* C15: whatever mix of network failures and 429 responses a page meets, at
\* most max(NET_RETRY_LIMIT, MAX_429_RETRIES) requests are issued for it,
\* and the attempt counter counts the requests of the current page only: it
\* is zero again when the next page starts.
C15_PerPageBudget ==
  pc \in {"request", "response", "backoff", "pageSleep", "acctSleep"} =>
    /\ RequestsIssued <= Max(NET_RETRY_LIMIT, MAX_429_RETRIES)
    /\ attempt = RequestsIssued
    /\ pc = "pageSleep" => attempt = 0

C15_Witness ==
  /\ pc = "response" /\ page = 2
  /\ attempt = 1 /\ reqLog = <<>>
  /\ retried


\* C16: a response that is neither a success nor a 429 ends the fetch at
\* once: it is the last request of its page, no later page is requested, no
\* backoff wait follows it, nothing is handed to the persister, and the
\* account is reported as failed.
C16_ApiErrorNotRetried ==
  \A i \in 1..Len(reqLog) :
    reqLog[i] \notin {0, 429, 200} =>
      /\ i = Len(reqLog) /\ attempt = i
      /\ pc = "acctSleep"
      /\ cause = "api" /\ status[m] \in Failures
      /\ wait = 0 /\ slept = 0
      /\ Len(pagesOk) = page - 1
      /\ txs = <<>> /\ inserted = 0

C16_Witness ==
  /\ pc = "acctSleep" /\ cause = "api"
  /\ page = 2 /\ pagesOk = <<1>>
  /\ reqLog = <<429, 403>>
  /\ status[m] = "noScope"


\* the record the persister is about to handle has a key the table holds
ConflictingInsert ==
  /\ pc = "persist" /\ ti <= Len(txs)
  /\ WellFormed(txs[ti])
  /\ \E r \in store : r.provider = "paypal" /\ r.provider_event_id = txs[ti].id

\* C17: no step removes or changes a stored row, and handling a record whose
\* (provider, provider_event_id) is already in the table leaves the table
\* as it is and adds nothing to the inserted count, also when the record
\* differs from the stored row or comes from another account.
C17_RowsImmutable ==
  [][/\ store \subseteq store'
     /\ (ConflictingInsert /\ ti' = ti + 1) =>
          (store' = store /\ inserted' = inserted)]_vars

\* account 1 has just handled a record whose id account 2 stored before
C17_Witness ==
  /\ pc = "persist" /\ m = 1 /\ ti > 1
  /\ WellFormed(txs[ti - 1])
  /\ \E r \in store :
       /\ r.provider_event_id = txs[ti - 1].id
       /\ r.account_id = 2
       /\ r.payload_json # txs[ti - 1]
  /\ \A r \in store : r.provider_event_id = txs[ti - 1].id => r.account_id = 2


\* const skipped = (captureCount + nonCaptureCount) - inserted
skippedOf(captures, nonCaptures, ins) == (captures + nonCaptures) - ins

Attempted == {i \in Processed : WellFormed(txs[i])}
\* the attempted records whose key was in the table when their turn came:
\* there when the batch started, or put there by an earlier record of it
AlreadyPresent ==
  {i \in Attempted :
     \/ \E r \in store0 : r.provider = "paypal" /\ r.provider_event_id = txs[i].id
     \/ \E j \in Attempted : j < i /\ txs[j].id = txs[i].id}

\* C18: while an account is persisted without error, and in its summary,
\* inserted + skipped is the number of insert attempts (captureCount +
\* nonCaptureCount), 0 <= inserted <= attempts, the inserted count is the
\* number of rows added since the batch started, and skipped is the number
\* of attempted records whose key was in the table at their insert, a
\* duplicate id earlier in the batch included.
C18_Accounting ==
  (pc = "persist" \/ (pc = "acctSleep" /\ status[m] \in {"ok", "empty"})) =>
    LET attempts == captureCount + nonCaptureCount
        skipped == skippedOf(captureCount, nonCaptureCount, inserted)
    IN /\ attempts = Cardinality(Attempted)
       /\ inserted + skipped = attempts
       /\ 0 <= inserted /\ inserted <= attempts
       /\ inserted = Cardinality(store \ store0)
       /\ skipped = Cardinality(AlreadyPresent)

\* a summary of two attempts on one id that was not in the table before
C18_Witness ==
  /\ pc = "acctSleep" /\ status[m] = "ok"
  /\ Len(txs) = 2 /\ txs[1].id = txs[2].id /\ txs[1] # txs[2]
  /\ Cardinality(Attempted) = 2
  /\ store0 = {}
  /\ inserted = 1


Fetching == {"request", "response", "backoff", "pageSleep"}

\* C19: one account at a time and in a fixed order. A token is requested
\* only at the start of the loop or after the sleep that follows the
\* previous account, whose outcome is then known and whose delay of
\* BETWEEN_ACCOUNT_SLEEP_MS has elapsed, on success and on failure alike;
\* the window is computed only after the token, the first page is requested
\* only after the window, records are persisted only after the fetch, rows
\* are written only while persisting and belong to the current account, and
\* a run over at least one account ends only after the same delay.
C19_Sequential ==
  [][/\ pc' = "token" =>
          \/ pc = "start" /\ ai' = 1
          \/ /\ pc = "acctSleep" /\ ai' = ai + 1
             /\ status[m] \in Outcomes
             /\ slept' >= BETWEEN_ACCOUNT_SLEEP_MS
     /\ (pc' = "exited" /\ exitCode' = 0 /\ merchants # <<>>) =>
          /\ pc = "acctSleep"
          /\ slept' >= BETWEEN_ACCOUNT_SLEEP_MS
     /\ pc' = "window" => (pc = "token" /\ token' = m)
     /\ (pc' \in Fetching /\ pc \notin Fetching) =>
          (pc = "window" /\ token = m /\ win' # NoWindow)
     /\ (pc' = "persist" /\ pc # "persist") =>
          (pc = "response" /\ token = m /\ win # NoWindow)
     /\ (pc' \in Working /\ pc \in Working) => ai' = ai
     /\ store' # store =>
          /\ pc = "persist" /\ pc' = "persist"
          /\ \A r \in store' \ store : r.account_id = m]_vars

\* the second account starts after the first one failed and the delay passed
C19_Witness ==
  /\ pc = "token" /\ ai = 2
  /\ status[merchants[1]] \in Failures
  /\ slept >= BETWEEN_ACCOUNT_SLEEP_MS


FetchFailures == {"rateLimit", "network", "api"}

\* C20: rows are written only after the fetch returned every page of the
\* window; a fetch that fails on a page hands nothing to the persister, not
\* even the records of the pages fetched before, and the table stays as it
\* is until the account's turn is over.
C20_AllOrNothing ==
  [][/\ store' # store =>
          LET N == Max(1, ReportedPages)
          IN /\ pc = "persist"
             /\ pagesOk = [i \in 1..N |-> i]
             /\ txs = ConcatPages(N)
     /\ (pc \in Fetching /\ pc' = "acctSleep") =>
          /\ cause' \in FetchFailures
          /\ store' = store /\ txs' = <<>> /\ ti' = 0 /\ inserted' = 0
     /\ (pc = "acctSleep" /\ cause \in FetchFailures) => store' = store]_vars

\* the second page failed after the first one was fetched: nothing stored
C20_Witness ==
  /\ pc = "acctSleep" /\ cause = "network"
  /\ page = 2 /\ pagesOk = <<1>> /\ Len(all) = PAGE_SIZE
  /\ txs = <<>> /\ inserted = 0
  /\ \A r \in store : r.account_id # m


\* ------------------------------------------------------------- the cursor
\* the latest occurred_at among the paypal rows of an account, -1 for none
CursorOf(rows, a) ==
  LET ts == {r.occurred_at :
               r \in {x \in rows : x.provider = "paypal" /\ x.account_id = a}}
  IN IF ts = {} THEN 0 - 1
     ELSE CHOOSE t \in ts : \A u \in ts : u <= t

\* C21: over any sequence of runs, failed and interrupted runs included, no
\* step lowers the cursor of an account, and the cursor of an account moves
\* only by a step of the persister that inserts a row for that account: a
\* run that inserts nothing leaves every cursor where it was.
C21_MonotonicCursor ==
  [][\A a \in Accounts :
       /\ CursorOf(store', a) >= CursorOf(store, a)
       /\ CursorOf(store', a) # CursorOf(store, a) =>
            /\ pc = "persist" /\ m = a
            /\ inserted' = inserted + 1]_vars

\* a later run finds the rows of 07:00 and 03:00 and inserts nothing
C21_Witness ==
  /\ runs = 2 /\ pc = "persist" /\ m = 1
  /\ ti > 1 /\ inserted = 0
  /\ \E r \in store : r.account_id = 1 /\ r.occurred_at = 3 * Hour
  /\ CursorOf(store, 1) = 7 * Hour
  /\ CursorOf(store0, 1) = 7 * Hour


\* C22: whatever lastSeen the table holds, a lastSeen later than now
\* included, the window that cursorWindowForAccount returns has
\* start <= end.
C22_WellFormedWindow ==
  WindowComputed => win.startISO <= win.endISO

====
